---- MODULE Spec2Model ----
(***************************************************************************)
(* Model of the live-data layer of rq-manager's front end: the query       *)
(* cache the hooks of services/*.ts register their queries with (one       *)
(* QueryClient, utils/cache.ts), the refresh timers armed by the pages and *)
(* by refetchInterval, the mutations with their onSuccess invalidations,   *)
(* and the queryFn of useJobs (single-source, single-queue and multi-queue *)
(* fan-out) together with the derivation of its query key.                 *)
(***************************************************************************)
EXTENDS Integers, Sequences, FiniteSets, TLC

(***************************************************************************)
(* Bounds of the exploration.                                              *)
(***************************************************************************)
MaxFetches == 3
MaxSubs == 1
MaxTicks == 1
MaxMutations == 1
MaxCachedKeys == 2
MaxJobs == 6
MaxTs == 5
MaxLimit == 3
MaxPage == 1
ExampleLimit == 10

(***************************************************************************)
(* Program constants.                                                      *)
(***************************************************************************)
JOBS_STALE_TIME == 5000
JOB_STALE_TIME == 30000
QUEUES_STALE_TIME == 5000
HEALTH_STALE_TIME == 10000
DEFAULT_STALE_TIME == 0
HEALTH_REFETCH_INTERVAL == 30000
DEFAULT_JOBS_REFRESH_INTERVAL == 10000
DEFAULT_RETRY == 3
DEFAULT_LIMIT == 50
DEFAULT_DASHBOARD_REFRESH_INTERVAL == 30000
DEFAULT_QUEUES_REFRESH_INTERVAL == 10000
DEFAULT_WORKERS_REFRESH_INTERVAL == 10000
DEFAULT_ANALYTICS_REFRESH_INTERVAL == 30000
DEFAULT_MAX_JOBS_PER_PAGE == 50
DEFAULT_DATA_RETENTION_DAYS == 30
MIN_REFRESH_INTERVAL == 5000

VARIABLES
    q,          \* the query cache: key name -> query state and observer count
    net,        \* physical requests outstanding: [key, seq]
    timer,      \* key name -> interval the refresh timer is armed with, 0 unarmed
    settings,   \* the settings store
    now,        \* the clock, in ms
    mut,        \* the mutation in progress or last settled
    backend,    \* the jobs the backend holds, per queue
    jq,         \* one useJobs query: its params, requests, responses, result
    storage,    \* the settings item of localStorage
    started,    \* whether the SettingsProvider has been constructed
    ex          \* one execution of the queryFn of a simple hook

cacheVars == <<q, net, timer, settings, storage, now, mut>>
aggVars == <<backend, jq>>
vars == <<q, net, timer, settings, now, mut, backend, jq, storage, started, ex>>

(***************************************************************************)
(* Query keys.  A key is the array handed to useQuery; the second element  *)
(* stands for the parameter object or the entity id.                       *)
(***************************************************************************)
Keys == {"jobs", "jobDetail", "jobCounts", "queues", "redisHealth"}

JobId == "j1"
QueueName == "default"

QueryKeyOf(k) ==
    CASE k = "jobs" -> <<"jobs", "params">>
      [] k = "jobDetail" -> <<"jobs", JobId>>
      [] k = "jobCounts" -> <<"job-counts">>
      [] k = "queues" -> <<"queues", "params">>
      [] k = "redisHealth" -> <<"redis-health">>

StaleTimeOf(k) ==
    CASE k = "jobs" -> JOBS_STALE_TIME
      [] k = "jobDetail" -> JOB_STALE_TIME
      [] k = "jobCounts" -> DEFAULT_STALE_TIME
      [] k = "queues" -> QUEUES_STALE_TIME
      [] k = "redisHealth" -> HEALTH_STALE_TIME

ClockStep == JOBS_STALE_TIME

(***************************************************************************)
(* The query cache (one QueryClient shared by every hook).                 *)
(***************************************************************************)
NewQuery ==
    [cached |-> FALSE, observers |-> 0, data |-> 0, status |-> "pending",
     fetchStatus |-> "idle", isInvalidated |-> FALSE, dataUpdatedAt |-> 0,
     seq |-> 0, current |-> 0, failureCount |-> 0]

\* A query is stale when invalidated, without data, or older than its staleTime.
IsStale(qs, k, t) ==
    \/ qs.isInvalidated
    \/ qs.data = 0
    \/ t >= qs.dataUpdatedAt + StaleTimeOf(k)

\* A new fetch attempt: the next sequence number becomes the current attempt.
StartFetch(qs) ==
    [qs EXCEPT !.seq = @ + 1,
               !.current = qs.seq + 1,
               !.fetchStatus = "fetching",
               !.failureCount = 0,
               !.status = IF qs.data = 0 THEN "pending" ELSE @]

\* refetch() and invalidateQueries() ask for cancelRefetch; a mount and a
\* refetchInterval tick do not.  An attempt in flight is superseded only
\* when the query already holds data and the caller asks for it; otherwise
\* the call joins the attempt in flight.
QueryFetch(qs, cancelRefetch) ==
    IF qs.fetchStatus # "idle" /\ ~(qs.data # 0 /\ cancelRefetch)
    THEN qs
    ELSE StartFetch(qs)

\* Mutant of IsCurrent: the last response wins, whatever attempt it answers.
IsCurrent_LastResponseWins(qs, n) == TRUE

\* The result of attempt n is taken only while n is still the current attempt.
IsCurrent(qs, n) == qs.current = n

CommitSuccess(qs, n, t) ==
    [qs EXCEPT !.data = n, !.dataUpdatedAt = t, !.status = "success",
               !.fetchStatus = "idle", !.isInvalidated = FALSE,
               !.current = 0, !.failureCount = 0]

\* Mutant of CommitError: the failure is swallowed, the entry keeps waiting.
CommitError_KeepsWaiting(qs) ==
    [qs EXCEPT !.current = 0, !.failureCount = 0]

\* failureCount is the retry counter of the attempt in flight; it ends with it.
CommitError(qs) ==
    [qs EXCEPT !.status = "error", !.fetchStatus = "idle",
               !.current = 0, !.failureCount = 0]

\* Mutant of ShouldFetchOnMount: refetchOnMount "always".
ShouldFetchOnMount_Always(qs, k, t) == TRUE

ShouldFetchOnMount(qs, k, t) == qs.data = 0 \/ IsStale(qs, k, t)

PartialMatchKey(filter, key) ==
    /\ Len(filter) <= Len(key)
    /\ \A i \in 1..Len(filter) : filter[i] = key[i]

\* invalidateQueries({ queryKey: filter }): every cached query whose key the
\* filter matches is marked invalidated, and refetched at once when observed.
InvalidateQueries(qq, filter) ==
    [k \in Keys |->
        IF qq[k].cached /\ PartialMatchKey(filter, QueryKeyOf(k))
        THEN LET inv == [qq[k] EXCEPT !.isInvalidated = TRUE]
             IN  IF inv.observers > 0 THEN QueryFetch(inv, TRUE) ELSE inv
        ELSE qq[k]]

RECURSIVE InvalidateAll(_, _)
InvalidateAll(qq, filters) ==
    IF filters = <<>> THEN qq
    ELSE InvalidateAll(InvalidateQueries(qq, Head(filters)), Tail(filters))

RECURSIVE SumSeq(_, _)
SumSeq(qq, ks) ==
    IF ks = {} THEN 0
    ELSE LET k == CHOOSE x \in ks : TRUE
         IN  qq[k].seq + SumSeq(qq, ks \ {k})

Issued(qq) == SumSeq(qq, Keys)

\* The physical requests that going from qq to qn starts.
NewRequests(qq, qn) ==
    {r \in [key : Keys, seq : 1..MaxFetches] :
        r.seq > qq[r.key].seq /\ r.seq <= qn[r.key].seq}

(***************************************************************************)
(* Refresh timers.  The Jobs page arms setInterval(refetch) from           *)
(* useRefreshInterval().jobs; the counts hooks pass refetchInterval from   *)
(* the settings; the health hooks pass a fixed refetchInterval.            *)
(***************************************************************************)
RefreshIntervalOf(k, st) ==
    CASE k = "jobs" -> IF st.autoRefresh THEN st.jobsRefreshInterval ELSE 0
      [] k = "jobCounts" -> IF st.autoRefresh THEN st.jobsRefreshInterval ELSE 0
      [] k = "redisHealth" -> HEALTH_REFETCH_INTERVAL
      [] OTHER -> 0

\* Mutant of ArmTimers: a key whose last attempt failed is not re-armed.
ArmTimers_StopOnError(qq, st) ==
    [k \in Keys |-> IF qq[k].observers > 0 /\ qq[k].status # "error"
                    THEN RefreshIntervalOf(k, st) ELSE 0]

\* Mutant of ArmTimers: the timer outlives the last observer.
ArmTimers_KeepAfterUnmount(qq, st) ==
    [k \in Keys |-> IF qq[k].cached THEN RefreshIntervalOf(k, st) ELSE 0]

\* The effects run after a render: a key's timer is armed iff it is observed.
ArmTimers(qq, st) ==
    [k \in Keys |-> IF qq[k].observers > 0 THEN RefreshIntervalOf(k, st) ELSE 0]

\* The Jobs page's interval calls refetch(); a refetchInterval tick does not
\* supersede an attempt in flight.
TimerCancelsRefetch(k) == k = "jobs"

ManualRefreshKeys == {"jobs", "queues", "redisHealth"}

\* The values the jobs interval is set to: the least the input allows and
\* the default.
JobsIntervalChoices == {MIN_REFRESH_INTERVAL, DEFAULT_JOBS_REFRESH_INTERVAL}

(***************************************************************************)
(* Mutations and the filters their onSuccess invalidates.                  *)
(***************************************************************************)
MutationTypes ==
    {"createJob", "retryJob", "cancelJob", "deleteJob", "createQueue",
     "updateQueue", "deleteQueue", "emptyQueue", "bulkQueue",
     "deleteScheduledJob"}

\* Mutant of InvalidationFilters: empty-queue also invalidates the jobs.
InvalidationFilters_EmptyAlsoJobs(t) ==
    CASE t = "createJob" -> << <<"jobs">>, <<"job-counts">> >>
      [] t = "retryJob" -> << <<"jobs">>, <<"jobs", JobId>>, <<"job-counts">> >>
      [] t = "cancelJob" -> << <<"jobs">>, <<"jobs", JobId>>, <<"job-counts">> >>
      [] t = "deleteJob" -> << <<"jobs">>, <<"job-counts">> >>
      [] t = "createQueue" -> << <<"queues">> >>
      [] t = "updateQueue" -> << <<"queues">>, <<"queues", QueueName>> >>
      [] t = "deleteQueue" -> << <<"queues">> >>
      [] t = "emptyQueue" ->
            << <<"queues">>, <<"queues", QueueName>>,
               <<"queue-metrics", QueueName>>, <<"queue-health", QueueName>>,
               <<"jobs">>, <<"job-counts">> >>
      [] t = "bulkQueue" -> << <<"queues">> >>
      [] t = "deleteScheduledJob" ->
            << <<"scheduled-jobs">>, <<"scheduled-job-counts">> >>

\* Mutant of InvalidationFilters: cancel-job also invalidates the queues.
InvalidationFilters_CancelAlsoQueues(t) ==
    CASE t = "createJob" -> << <<"jobs">>, <<"job-counts">> >>
      [] t = "retryJob" -> << <<"jobs">>, <<"jobs", JobId>>, <<"job-counts">> >>
      [] t = "cancelJob" ->
            << <<"jobs">>, <<"jobs", JobId>>, <<"job-counts">>, <<"queues">> >>
      [] t = "deleteJob" -> << <<"jobs">>, <<"job-counts">> >>
      [] t = "createQueue" -> << <<"queues">> >>
      [] t = "updateQueue" -> << <<"queues">>, <<"queues", QueueName>> >>
      [] t = "deleteQueue" -> << <<"queues">> >>
      [] t = "emptyQueue" ->
            << <<"queues">>, <<"queues", QueueName>>,
               <<"queue-metrics", QueueName>>, <<"queue-health", QueueName>> >>
      [] t = "bulkQueue" -> << <<"queues">> >>
      [] t = "deleteScheduledJob" ->
            << <<"scheduled-jobs">>, <<"scheduled-job-counts">> >>

InvalidationFilters(t) ==
    CASE t = "createJob" -> << <<"jobs">>, <<"job-counts">> >>
      [] t = "retryJob" -> << <<"jobs">>, <<"jobs", JobId>>, <<"job-counts">> >>
      [] t = "cancelJob" -> << <<"jobs">>, <<"jobs", JobId>>, <<"job-counts">> >>
      [] t = "deleteJob" -> << <<"jobs">>, <<"job-counts">> >>
      [] t = "createQueue" -> << <<"queues">> >>
      [] t = "updateQueue" -> << <<"queues">>, <<"queues", QueueName>> >>
      [] t = "deleteQueue" -> << <<"queues">> >>
      [] t = "emptyQueue" ->
            << <<"queues">>, <<"queues", QueueName>>,
               <<"queue-metrics", QueueName>>, <<"queue-health", QueueName>> >>
      [] t = "bulkQueue" -> << <<"queues">> >>
      [] t = "deleteScheduledJob" ->
            << <<"scheduled-jobs">>, <<"scheduled-job-counts">> >>

\* Mutant of OnSuccess: the invalidation is left for after the promise resolves.
OnSuccess_Deferred(qq, t) == qq

\* Mutant of OnSuccess: cancel-job forgets the job-counts key.
OnSuccess_NoCounts(qq, t) ==
    InvalidateAll(qq, IF t = "cancelJob" THEN << <<"jobs">>, <<"jobs", JobId>> >>
                      ELSE InvalidationFilters(t))

\* onSuccess of a mutation of type t, run on the cache qq.
OnSuccess(qq, t) == InvalidateAll(qq, InvalidationFilters(t))

\* Mutant of OnError: the invalidation is run onSettled, so on failure too.
OnError_Invalidates(qq, t) == InvalidateAll(qq, InvalidationFilters(t))

\* What a failed mutation does to the cache: nothing (there is no onError).
OnError(qq, t) == qq

(***************************************************************************)
(* What a list page renders from its query: the error text whenever the    *)
(* query holds an error, else the table once there is data.                *)
(***************************************************************************)
PageView(qs) ==
    IF qs.status = "error" THEN "error"
    ELSE IF qs.data = 0 THEN "loading"
    ELSE "table"

(***************************************************************************)
(* JavaScript values of the filter fields of JobsQueryParams, as tagged     *)
(* sequences: a property that is absent, undefined, null, a string, or an  *)
(* array of strings.                                                       *)
(***************************************************************************)
Absent == <<"absent">>
Undef == <<"undefined">>
Null == <<"null">>
Omitted == <<"omitted">>
Str(x) == <<"str", x>>
Arr(xs) == <<"arr">> \o xs

IsArray(v) == v[1] = "arr"

\* Boolean(v): undefined, null and "" are falsy; every array is truthy.
Truthy(v) ==
    CASE v[1] = "str" -> v[2] # ""
      [] v[1] = "arr" -> TRUE
      [] OTHER -> FALSE

\* v || undefined
OrUndefined(v) == IF Truthy(v) THEN v ELSE Undef

Min(a, b) == IF a < b THEN a ELSE b
Max(a, b) == IF a > b THEN a ELSE b

RangeOf(xs) == {xs[i] : i \in DOMAIN xs}

\* Math.ceil(a / b) for naturals, b > 0
Ceil(a, b) == (a + b - 1) \div b

\* Array.prototype.slice(from, to)
Slice(xs, from, to) == SubSeq(xs, from + 1, Min(to, Len(xs)))

(***************************************************************************)
(* The backend's jobs endpoint (GET /jobs): the envelope of a list request. *)
(***************************************************************************)
Queues == {"A", "B", "C"}

CreatedAt(i) == MaxTs - ((i - 1) % MaxTs)

JobOf(b, i) == [id |-> i, created_at |-> CreatedAt(i), queue |-> b.qof[i]]

RECURSIVE NewestFirst(_, _)
NewestFirst(b, ids) ==
    IF ids = {} THEN <<>>
    ELSE LET i == CHOOSE x \in ids : \A y \in ids :
                      \/ CreatedAt(x) > CreatedAt(y)
                      \/ (CreatedAt(x) = CreatedAt(y) /\ x <= y)
         IN  <<JobOf(b, i)>> \o NewestFirst(b, ids \ {i})

Respond(b, req) ==
    LET ids == {i \in 1..b.n : req.queue = Omitted \/ req.queue = Str(b.qof[i])}
        all == NewestFirst(b, ids)
    IN  [data |-> Slice(all, req.offset, req.offset + req.limit),
         total |-> Len(all),
         offset |-> req.offset,
         limit |-> req.limit,
         has_more |-> req.offset + req.limit < Len(all)]

(***************************************************************************)
(* useJobs: the query key and the queryFn.                                 *)
(***************************************************************************)
FilterFields ==
    {"queue", "status", "worker", "function", "search", "created_after",
     "created_before", "sort_by", "sort_order"}

\* The hash of [JOBS_QUERY_KEY, params]: JSON with sorted keys, in which a
\* property whose value is undefined is left out like an absent one.
HashQueryKey(p) ==
    [tag |-> "jobs",
     limit |-> p.limit,
     offset |-> p.offset,
     filters |-> [f \in FilterFields |->
                    IF p[f] = Undef \/ p[f] = Absent THEN Omitted ELSE p[f]]]

\* What the HTTP client sends of a params object: null and undefined are dropped.
SerializeParams(api) ==
    [limit |-> api.limit,
     offset |-> api.offset,
     filters |-> [f \in FilterFields |->
                    IF api[f] = Undef \/ api[f] = Absent \/ api[f] = Null
                    THEN Omitted ELSE api[f]]]

TransformQueryParams(p, queue) ==
    LET dates == Truthy(p.created_after) \/ Truthy(p.created_before)
        sort  == Truthy(p.sort_by) \/ Truthy(p.sort_order)
    IN  [limit |-> p.limit,
         offset |-> p.offset,
         status |-> OrUndefined(p.status),
         worker |-> OrUndefined(p.worker),
         function |-> OrUndefined(p.function),
         search |-> OrUndefined(p.search),
         queue |-> IF Truthy(queue) THEN queue ELSE Absent,
         created_after |-> IF dates THEN p.created_after ELSE Absent,
         created_before |-> IF dates THEN p.created_before ELSE Absent,
         sort_by |-> IF sort THEN p.sort_by ELSE Absent,
         sort_order |-> IF sort THEN p.sort_order ELSE Absent]

\* api.get("/jobs", { params }) as the request that leaves the client
ApiGet(api) ==
    LET sp == SerializeParams(api)
    IN  [limit |-> sp.limit, offset |-> sp.offset, queue |-> sp.filters["queue"],
         filters |-> sp.filters]

\* const queues = Array.isArray(params.queue) ? params.queue.filter(Boolean)
\*              : params.queue ? [params.queue] : []
QueuesOf(p) ==
    IF IsArray(p.queue) THEN SelectSeq(Tail(p.queue), LAMBDA x : x # "")
    ELSE IF Truthy(p.queue) THEN <<p.queue[2]>>
    ELSE <<>>

RECURSIVE FlatMapData(_)
FlatMapData(responses) ==
    IF responses = <<>> THEN <<>>
    ELSE Head(responses).data \o FlatMapData(Tail(responses))

RECURSIVE SumTotals(_)
SumTotals(responses) ==
    IF responses = <<>> THEN 0
    ELSE Head(responses).total + SumTotals(Tail(responses))

\* Insert job j into a sequence sorted newest first, after every job that
\* is not older than j (the sort is stable).
RECURSIVE InsertByCreatedAt(_, _)
InsertByCreatedAt(sorted, j) ==
    IF sorted = <<>> THEN <<j>>
    ELSE IF Head(sorted).created_at >= j.created_at
         THEN <<Head(sorted)>> \o InsertByCreatedAt(Tail(sorted), j)
         ELSE <<j>> \o sorted

\* Mutant of SortJobs: the combined list is returned unsorted.
SortJobs_Unsorted(jobs) == jobs

\* allJobs.sort((a, b) => time(b.created_at) - time(a.created_at))
RECURSIVE SortJobs(_)
SortJobs(jobs) ==
    IF jobs = <<>> THEN <<>>
    ELSE InsertByCreatedAt(SortJobs(SubSeq(jobs, 1, Len(jobs) - 1)), jobs[Len(jobs)])

\* Mutant of TotalJobs: the total is the number of merged records.
TotalJobs_MergedCount(responses) == Len(FlatMapData(responses))

\* responses.reduce((sum, response) => sum + response.data.total, 0)
TotalJobs(responses) == SumTotals(responses)

\* Mutant of JobsRequests: every partition is asked for the whole limit.
JobsRequests_FullLimit(p) ==
    LET queues == QueuesOf(p)
        n == Len(queues)
    IN  IF n = 0 THEN <<ApiGet(TransformQueryParams(p, Undef))>>
        ELSE [i \in 1..n |-> ApiGet(TransformQueryParams(p, Str(queues[i])))]

\* The requests the queryFn sends for params p, in order.
JobsRequests(p) ==
    LET queues == QueuesOf(p)
        n == Len(queues)
    IN  IF n = 0 THEN <<ApiGet(TransformQueryParams(p, Undef))>>
        ELSE IF n = 1 THEN <<ApiGet(TransformQueryParams(p, Str(queues[1])))>>
        ELSE [i \in 1..n |->
                ApiGet(TransformQueryParams([p EXCEPT !.limit = Ceil(p.limit, n)],
                                            Str(queues[i])))]

\* What the queryFn returns for params p once every response has arrived.
JobsResult(p, responses) ==
    IF Len(QueuesOf(p)) <= 1
    THEN LET d == responses[1]
         IN  [data |-> d.data, total |-> d.total, offset |-> d.offset,
              limit |-> d.limit, has_more |-> d.has_more]
    ELSE LET allJobs == FlatMapData(responses)
             sortedJobs == SortJobs(allJobs)
             endIndex == p.offset + p.limit
         IN  [data |-> Slice(sortedJobs, p.offset, endIndex),
              total |-> TotalJobs(responses),
              offset |-> p.offset,
              limit |-> p.limit,
              has_more |-> endIndex < Len(sortedJobs)]

\* The orders in which n requests in flight can complete.
CompletionOrders(n) ==
    {f \in [1..n -> 1..n] : \A i, j \in 1..n : i # j => f[i] # f[j]}

\* Each value is stored at the index of its promise when the promise settles.
RECURSIVE StoreSettled(_, _, _)
StoreSettled(values, order, acc) ==
    IF order = <<>> THEN acc
    ELSE StoreSettled(values, Tail(order),
                      [acc EXCEPT ![Head(order)] = values[Head(order)]])

\* Mutant of PromiseAll: the values are collected as they arrive.
PromiseAll_ArrivalOrder(values, order) ==
    [k \in 1..Len(order) |-> values[order[k]]]

\* await Promise.all(promises), the promises settling in the given order.
PromiseAll(values, order) ==
    StoreSettled(values, order, [i \in 1..Len(values) |-> <<>>])

\* The responses of the requests that did not fail, in request order.
Fulfilled(b, reqs, failed) ==
    LET ok == SelectSeq([i \in 1..Len(reqs) |-> i], LAMBDA i : i \notin failed)
    IN  [j \in 1..Len(ok) |-> Respond(b, reqs[ok[j]])]

\* Mutant of QueryFnOutcome: Promise.allSettled, the fulfilled partitions merged.
QueryFnOutcome_AllSettled(p, failed, resps) ==
    IF resps = <<>> THEN [phase |-> "error", result |-> <<>>]
    ELSE [phase |-> "done", result |-> JobsResult(p, resps)]

\* How the queryFn ends: await api.get / await Promise.all reject when a
\* request rejects, and the async queryFn rejects with it, returning nothing.
QueryFnOutcome(p, failed, resps) ==
    IF failed # {} THEN [phase |-> "error", result |-> <<>>]
    ELSE [phase |-> "done", result |-> JobsResult(p, resps)]

(***************************************************************************)
(* The other useJobs of jobsService.ts: one request without a queue         *)
(* parameter, the queue filter applied in the client to the page returned.  *)
(***************************************************************************)
\* Its transformQueryParams: sort_by and sort_order default to created_at, desc.
TransformQueryParamsSorted(p, queue) ==
    LET sort == Truthy(p.sort_by) \/ Truthy(p.sort_order)
    IN  [TransformQueryParams(p, queue) EXCEPT
            !.sort_by = IF sort THEN p.sort_by ELSE Str("created_at"),
            !.sort_order = IF sort THEN p.sort_order ELSE Str("desc")]

ClientFilterRequests(p) == <<ApiGet(TransformQueryParamsSorted(p, Undef))>>

\* filteredJobs.filter(job => job.queue && queues.includes(job.queue)), the
\* total and has_more taken from the filtered page.
ClientFilterResult(p, responses) ==
    LET d == responses[1]
        queues == QueuesOf(p)
        filteredJobs == IF Len(queues) > 0
                        THEN SelectSeq(d.data, LAMBDA j : j.queue \in RangeOf(queues))
                        ELSE d.data
        totalJobs == IF Len(queues) > 0 THEN Len(filteredJobs) ELSE d.total
    IN  [data |-> filteredJobs,
         total |-> totalJobs,
         offset |-> p.offset,
         limit |-> p.limit,
         has_more |-> Len(filteredJobs) = p.limit]

\* The params the Jobs page starts with.
InitialQueryParams ==
    [limit |-> DEFAULT_LIMIT, offset |-> 0, queue |-> Arr(<<>>), status |-> Undef,
     search |-> Undef, worker |-> Absent, function |-> Absent,
     created_after |-> Absent, created_before |-> Absent,
     sort_by |-> Absent, sort_order |-> Absent]

NoBackend == [n |-> 0, qof |-> <<>>]

IdleQuery(p) ==
    [phase |-> "idle", params |-> p, key |-> HashQueryKey(p),
     requests |-> <<>>, failed |-> {}, order |-> <<>>, responses |-> <<>>,
     result |-> <<>>]

(***************************************************************************)
(* Initial state: the app before any component has mounted.                *)
(***************************************************************************)
DEFAULT_SETTINGS ==
    [dashboardRefreshInterval |-> DEFAULT_DASHBOARD_REFRESH_INTERVAL,
     jobsRefreshInterval |-> DEFAULT_JOBS_REFRESH_INTERVAL,
     queuesRefreshInterval |-> DEFAULT_QUEUES_REFRESH_INTERVAL,
     workersRefreshInterval |-> DEFAULT_WORKERS_REFRESH_INTERVAL,
     analyticsRefreshInterval |-> DEFAULT_ANALYTICS_REFRESH_INTERVAL,
     autoRefresh |-> TRUE,
     maxJobsPerPage |-> DEFAULT_MAX_JOBS_PER_PAGE,
     dataRetentionDays |-> DEFAULT_DATA_RETENTION_DAYS]

SettingsFields == DOMAIN DEFAULT_SETTINGS

\* The localStorage item: missing, a string JSON.parse rejects, the JSON
\* null, or the JSON of an object holding some of the fields.
NoItem == <<"none">>
BadItem == <<"unparsable">>
NullItem == <<"null">>
ObjectItem(o) == <<"object", o>>

\* localStorage.setItem(STORAGE_KEY, JSON.stringify(st))
Stringify(st) == ObjectItem(st)

\* Mutant of LoadSettings: the spread in the other order, defaults last.
LoadSettings_DefaultsLast(item) == DEFAULT_SETTINGS

\* The useState initializer of SettingsProvider:
\* stored ? { ...DEFAULT_SETTINGS, ...JSON.parse(stored) } : DEFAULT_SETTINGS,
\* and DEFAULT_SETTINGS when that throws.
LoadSettings(item) ==
    IF item \in {NoItem, BadItem, NullItem} THEN DEFAULT_SETTINGS
    ELSE [f \in SettingsFields |->
            IF f \in DOMAIN item[2] THEN item[2][f] ELSE DEFAULT_SETTINGS[f]]

\* No queryFn is running.
NoExec == [hook |-> "none", failAt |-> 0, calls |-> <<>>, outcome |-> "idle"]

Init ==
    /\ q = [k \in Keys |-> NewQuery]
    /\ net = {}
    /\ timer = [k \in Keys |-> 0]
    /\ settings = DEFAULT_SETTINGS
    /\ now = ClockStep
    /\ mut = [phase |-> "idle", count |-> 0]
    /\ backend = NoBackend
    /\ jq = IdleQuery(InitialQueryParams)
    /\ storage = Stringify(DEFAULT_SETTINGS)
    /\ started = TRUE
    /\ ex = NoExec

(***************************************************************************)
(* Actions.                                                                *)
(***************************************************************************)
\* A component using the hook of key k mounts: the observer subscribes,
\* fetches when the query has no data or is stale, and the effects arm the timer.
Mount(k) ==
    /\ q[k].observers < MaxSubs
    /\ q[k].cached \/ Cardinality({c \in Keys : q[c].cached}) < MaxCachedKeys
    /\ LET sub == [q[k] EXCEPT !.cached = TRUE, !.observers = @ + 1]
           qs  == IF ShouldFetchOnMount(sub, k, now)
                  THEN QueryFetch(sub, FALSE) ELSE sub
       IN  q' = [q EXCEPT ![k] = qs]
    /\ Issued(q') <= MaxFetches
    /\ net' = net \cup NewRequests(q, q')
    /\ timer' = ArmTimers(q', settings)
    /\ UNCHANGED <<settings, storage, now, mut>>

\* The component unmounts: the observer unsubscribes; with the last one gone
\* the effect cleanup clears the timer.  An attempt in flight is left running.
Unmount(k) ==
    /\ q[k].observers > 0
    /\ q' = [q EXCEPT ![k].observers = @ - 1]
    /\ timer' = ArmTimers(q', settings)
    /\ UNCHANGED <<net, settings, storage, now, mut>>

\* The refresh timer of key k elapses.
TimerFire(k) ==
    /\ timer[k] # 0
    /\ q' = [q EXCEPT ![k] = QueryFetch(q[k], TimerCancelsRefetch(k))]
    /\ Issued(q') <= MaxFetches
    /\ net' = net \cup NewRequests(q, q')
    /\ UNCHANGED <<timer, settings, storage, now, mut>>

\* The refresh button of a mounted view: refetch().
ManualRefetch(k) ==
    /\ k \in ManualRefreshKeys
    /\ q[k].observers > 0
    /\ q' = [q EXCEPT ![k] = QueryFetch(q[k], TRUE)]
    /\ Issued(q') <= MaxFetches
    /\ net' = net \cup NewRequests(q, q')
    /\ UNCHANGED <<timer, settings, storage, now, mut>>

\* A physical request returns a payload.
ResolveSuccess(r) ==
    /\ r \in net
    /\ net' = net \ {r}
    /\ q' = [q EXCEPT ![r.key] =
                IF IsCurrent(q[r.key], r.seq)
                THEN CommitSuccess(q[r.key], r.seq, now) ELSE @]
    /\ UNCHANGED <<timer, settings, storage, now, mut>>

\* A physical request fails (status, network or the 10 s timeout).  The
\* current attempt retries while observed and below the retry count.
ResolveFailure(r) ==
    /\ r \in net
    /\ IF ~IsCurrent(q[r.key], r.seq)
       THEN /\ net' = net \ {r}
            /\ q' = q
       ELSE IF q[r.key].failureCount < DEFAULT_RETRY /\ q[r.key].observers > 0
       THEN /\ net' = net
            /\ q' = [q EXCEPT ![r.key].failureCount = @ + 1]
       ELSE /\ net' = net \ {r}
            /\ q' = [q EXCEPT ![r.key] = CommitError(@)]
    /\ UNCHANGED <<timer, settings, storage, now, mut>>

\* Time passes.
Tick ==
    /\ now < ClockStep * (MaxTicks + 1)
    /\ now' = now + ClockStep
    /\ UNCHANGED <<q, net, timer, settings, storage, mut>>

\* The auto-refresh switch of the Settings page: updateSettings, re-render,
\* effects re-run with the new intervals.
ToggleAutoRefresh ==
    /\ settings' = [settings EXCEPT !.autoRefresh = ~@]
    /\ storage' = Stringify(settings')
    /\ timer' = ArmTimers(q, settings')
    /\ UNCHANGED <<q, net, now, mut>>

\* Mutant of SetJobsRefreshInterval: the timers already armed keep the
\* interval they were armed with.
SetJobsRefreshInterval_KeepsArmedTimers(v) ==
    /\ settings.autoRefresh
    /\ v # settings.jobsRefreshInterval
    /\ settings' = [settings EXCEPT !.jobsRefreshInterval = v]
    /\ storage' = Stringify(settings')
    /\ UNCHANGED <<q, net, timer, now, mut>>

\* The jobs interval input of the Settings page, shown while auto-refresh
\* is on: updateSettings({ jobsRefreshInterval }), then as above.
SetJobsRefreshInterval(v) ==
    /\ settings.autoRefresh
    /\ v # settings.jobsRefreshInterval
    /\ settings' = [settings EXCEPT !.jobsRefreshInterval = v]
    /\ storage' = Stringify(settings')
    /\ timer' = ArmTimers(q, settings')
    /\ UNCHANGED <<q, net, now, mut>>

\* Mutant of ResetSettings: the stored item is left in place.
ResetSettings_KeepsItem ==
    /\ settings' = DEFAULT_SETTINGS
    /\ timer' = ArmTimers(q, settings')
    /\ UNCHANGED <<q, net, storage, now, mut>>

\* The reset button of the Settings page: setSettings(DEFAULT_SETTINGS) and
\* localStorage.removeItem(STORAGE_KEY).
ResetSettings ==
    /\ settings' = DEFAULT_SETTINGS
    /\ storage' = NoItem
    /\ timer' = ArmTimers(q, settings')
    /\ UNCHANGED <<q, net, now, mut>>

\* mutate / mutateAsync: the mutation's request is sent.  Which mutation it
\* is matters only when its request settles, so the type is drawn there.
MutationStart ==
    /\ mut.phase # "pending"
    /\ mut.count < MaxMutations
    /\ mut' = [phase |-> "pending", count |-> mut.count + 1]
    /\ UNCHANGED <<q, net, timer, settings, storage, now>>

\* The request of a mutation of type t succeeds: onSuccess runs, then the
\* promise resolves.
MutationSucceed(t) ==
    /\ mut.phase = "pending"
    /\ q' = OnSuccess(q, t)
    /\ Issued(q') <= MaxFetches
    /\ net' = net \cup NewRequests(q, q')
    /\ mut' = [mut EXCEPT !.phase = "resolved"]
    /\ UNCHANGED <<timer, settings, storage, now>>

\* The request of a mutation of type t fails: the promise rejects to the caller.
MutationFail(t) ==
    /\ mut.phase = "pending"
    /\ q' = OnError(q, t)
    /\ net' = net \cup NewRequests(q, q')
    /\ mut' = [mut EXCEPT !.phase = "rejected"]
    /\ UNCHANGED <<timer, settings, storage, now>>

CacheNext ==
    \/ \E k \in Keys : Mount(k)
    \/ \E k \in Keys : Unmount(k)
    \/ \E k \in Keys : TimerFire(k)
    \/ \E k \in Keys : ManualRefetch(k)
    \/ \E r \in net : ResolveSuccess(r)
    \/ \E r \in net : ResolveFailure(r)
    \/ Tick
    \/ ToggleAutoRefresh
    \/ MutationStart
    \/ \E t \in MutationTypes : MutationSucceed(t)
    \/ \E t \in MutationTypes : MutationFail(t)

Next == CacheNext /\ UNCHANGED aggVars /\ UNCHANGED <<started, ex>>

Spec == Init /\ [][Next]_vars

\* The transport gives every request 10 s (timeout: 10000): a request that
\* is outstanding is answered or rejected, it does not wait for ever.
Requests == [key : Keys, seq : 1..MaxFetches]

Settles(r) ==
    /\ ResolveSuccess(r) \/ ResolveFailure(r)
    /\ UNCHANGED <<backend, jq, started, ex>>

\* The views mount and unmount, refresh by timer and by button, and the
\* requests settle; the clock and the settings stay, no mutation is made.
TimeoutNext ==
    /\ UNCHANGED <<backend, jq, started, ex>>
    /\ \/ \E k \in Keys : Mount(k)
       \/ \E k \in Keys : Unmount(k)
       \/ \E k \in Keys : TimerFire(k)
       \/ \E k \in Keys : ManualRefetch(k)
       \/ \E r \in net : ResolveSuccess(r)
       \/ \E r \in net : ResolveFailure(r)

SpecTimeout ==
    Init /\ [][TimeoutNext]_vars /\ \A r \in Requests : WF_vars(Settles(r))

(***************************************************************************)
(* The jobs query on its own: the inputs are drawn at the start, RunQuery  *)
(* runs the queryFn of useJobs against the backend.                        *)
(***************************************************************************)
Limits == (1..MaxLimit) \cup {ExampleLimit}

\* Backends: jobs 1..n, each in one queue.
Backends ==
    UNION {{[n |-> m, qof |-> f] : f \in [1..m -> Queues]} : m \in 0..MaxJobs}

\* Arrays of distinct queue names, as the MultiSelect of the search bar gives.
QueueSelections ==
    {Arr(xs) : xs \in {f \in UNION {[1..n -> Queues] : n \in 0..Cardinality(Queues)} :
                         \A i, j \in DOMAIN f : i # j => f[i] # f[j]}}

\* The ways a caller can spell an empty or a set filter.
QueueSpellings ==
    {Absent, Undef, Null, Str(""), Str("A"), Arr(<<>>), Arr(<<"">>),
     Arr(<<"A">>), Arr(<<"", "A">>), Arr(<<"A", "B">>)}
StatusSpellings == {Absent, Undef, Null, Str(""), Str("failed")}
SearchSpellings == {Absent, Undef, Null, Str(""), Str("x")}

\* Queue A holds the jobs created at 5, 3, 1 and queue B those created at 4, 2.
ExampleBackend ==
    [n |-> 5, qof |-> [i \in 1..5 |-> IF i % 2 = 1 THEN "A" ELSE "B"]]

AggInit ==
    /\ q = [k \in Keys |-> NewQuery]
    /\ net = {}
    /\ timer = [k \in Keys |-> 0]
    /\ settings = DEFAULT_SETTINGS
    /\ now = ClockStep
    /\ mut = [phase |-> "idle", count |-> 0]
    /\ storage = Stringify(DEFAULT_SETTINGS)
    /\ started = TRUE
    /\ ex = NoExec
    /\ \/ /\ backend \in Backends
          /\ \E l \in Limits, pg \in 0..MaxPage, qs \in QueueSelections :
                jq = IdleQuery([InitialQueryParams EXCEPT
                                  !.limit = l, !.offset = pg * l, !.queue = qs])
       \/ /\ backend = ExampleBackend
          /\ \E qs \in QueueSpellings, st \in StatusSpellings, se \in SearchSpellings :
                jq = IdleQuery([InitialQueryParams EXCEPT
                                  !.queue = qs, !.status = st, !.search = se])

\* The queryFn runs to completion, every request answered.
RunQuery ==
    /\ jq.phase = "idle"
    /\ LET reqs == JobsRequests(jq.params)
           resps == [i \in 1..Len(reqs) |-> Respond(backend, reqs[i])]
       IN  jq' = [jq EXCEPT !.phase = "done",
                            !.requests = reqs,
                            !.responses = resps,
                            !.result = JobsResult(jq.params, resps)]
    /\ UNCHANGED <<backend, q, net, timer, settings, storage, now, mut, started, ex>>

\* The queryFn runs and the requests in failed are rejected (status,
\* network or timeout); the others are answered.
RunQueryFailing(failed) ==
    /\ jq.phase = "idle"
    /\ LET reqs == JobsRequests(jq.params)
           resps == Fulfilled(backend, reqs, failed)
           out == QueryFnOutcome(jq.params, failed, resps)
       IN  /\ failed \subseteq 1..Len(reqs)
           /\ failed # {}
           /\ jq' = [jq EXCEPT !.phase = out.phase,
                               !.requests = reqs,
                               !.failed = failed,
                               !.responses = resps,
                               !.result = out.result]
    /\ UNCHANGED <<backend, q, net, timer, settings, storage, now, mut, started, ex>>

AggNext ==
    \/ RunQuery
    \/ \E failed \in SUBSET (1..Cardinality(Queues)) : RunQueryFailing(failed)

SpecAgg == AggInit /\ [][AggNext]_vars

(***************************************************************************)
(* The jobs query of the client-side filter, on the same inputs.           *)
(***************************************************************************)
RunClientFilterQuery ==
    /\ jq.phase = "idle"
    /\ LET reqs == ClientFilterRequests(jq.params)
           resps == [i \in 1..Len(reqs) |-> Respond(backend, reqs[i])]
       IN  jq' = [jq EXCEPT !.phase = "done",
                            !.requests = reqs,
                            !.responses = resps,
                            !.result = ClientFilterResult(jq.params, resps)]
    /\ UNCHANGED <<backend, q, net, timer, settings, storage, now, mut, started, ex>>

ClientFilterNext == RunClientFilterQuery

SpecClientFilter == AggInit /\ [][ClientFilterNext]_vars

(***************************************************************************)
(* The multi-queue query with its requests completing in any order.        *)
(***************************************************************************)
ArrivalInit ==
    /\ q = [k \in Keys |-> NewQuery]
    /\ net = {}
    /\ timer = [k \in Keys |-> 0]
    /\ settings = DEFAULT_SETTINGS
    /\ now = ClockStep
    /\ mut = [phase |-> "idle", count |-> 0]
    /\ storage = Stringify(DEFAULT_SETTINGS)
    /\ started = TRUE
    /\ ex = NoExec
    /\ backend \in Backends
    /\ \E l \in Limits, pg \in 0..MaxPage, qs \in QueueSelections :
          /\ Len(Tail(qs)) >= 2
          /\ jq = IdleQuery([InitialQueryParams EXCEPT
                               !.limit = l, !.offset = pg * l, !.queue = qs])

\* The queryFn runs; the responses arrive in the given order.
RunQueryInOrder(order) ==
    /\ jq.phase = "idle"
    /\ LET reqs == JobsRequests(jq.params)
           values == [i \in 1..Len(reqs) |-> Respond(backend, reqs[i])]
           resps == PromiseAll(values, order)
       IN  /\ Len(order) = Len(reqs)
           /\ jq' = [jq EXCEPT !.phase = "done",
                               !.requests = reqs,
                               !.order = order,
                               !.responses = resps,
                               !.result = JobsResult(jq.params, resps)]
    /\ UNCHANGED <<backend, q, net, timer, settings, storage, now, mut, started, ex>>

ArrivalNext ==
    \E order \in CompletionOrders(Len(QueuesOf(jq.params))) : RunQueryInOrder(order)

SpecArrival == ArrivalInit /\ [][ArrivalNext]_vars

(***************************************************************************)
(* The settings store and the timers that follow it: the page loads with   *)
(* whatever localStorage holds, views mount and unmount, the user changes  *)
(* the refresh settings.                                                   *)
(***************************************************************************)
\* A value other than the default, as an earlier session may have stored.
StoredValue(f) ==
    CASE f = "autoRefresh" -> FALSE
      [] f = "jobsRefreshInterval" -> DEFAULT_ANALYTICS_REFRESH_INTERVAL
      [] OTHER -> DEFAULT_SETTINGS[f] + MIN_REFRESH_INTERVAL

StoredItems ==
    {NoItem, BadItem, NullItem} \cup
    {ObjectItem([f \in fs |-> StoredValue(f)]) : fs \in SUBSET SettingsFields}

SettingsInit ==
    /\ q = [k \in Keys |-> NewQuery]
    /\ net = {}
    /\ timer = [k \in Keys |-> 0]
    /\ settings = DEFAULT_SETTINGS
    /\ now = ClockStep
    /\ mut = [phase |-> "idle", count |-> 0]
    /\ backend = NoBackend
    /\ jq = IdleQuery(InitialQueryParams)
    /\ storage \in StoredItems
    /\ started = FALSE
    /\ ex = NoExec

\* The page loads: SettingsProvider is constructed and reads the item.
StartUp ==
    /\ ~started
    /\ started' = TRUE
    /\ settings' = LoadSettings(storage)
    /\ timer' = ArmTimers(q, settings')
    /\ UNCHANGED <<q, net, storage, now, mut>>

\* useEffect(() => localStorage.setItem(...), [settings]) after a render.
PersistEffect ==
    /\ started
    /\ storage # Stringify(settings)
    /\ storage' = Stringify(settings)
    /\ UNCHANGED <<q, net, timer, settings, now, mut, started>>

SettingsNext ==
    /\ UNCHANGED <<backend, jq, ex>>
    /\ \/ StartUp
       \/ PersistEffect
       \/ started /\ ToggleAutoRefresh /\ UNCHANGED started
       \/ started /\ UNCHANGED started
             /\ \E v \in JobsIntervalChoices : SetJobsRefreshInterval(v)
       \/ started /\ ResetSettings /\ UNCHANGED started
       \/ started /\ UNCHANGED started /\ \E k \in Keys : Mount(k)
       \/ started /\ UNCHANGED started /\ \E k \in Keys : Unmount(k)

SpecSettings == SettingsInit /\ [][SettingsNext]_vars

(***************************************************************************)
(* The queryFn of the hooks other than useJobs, one execution at a time:   *)
(* each await api.get is a request sent and then answered or rejected.     *)
(***************************************************************************)
SingleCallHooks ==
    {"useJob", "useJobFunctions", "useJobCounts", "useQueues", "useQueue",
     "useQueueMetrics", "useQueueHealth", "useWorkers", "useWorker",
     "useWorkerCounts", "useWorkerJobs", "useSystemHealth", "useRedisHealth",
     "useRecentJobs", "useFailedJobs", "useDashboardWorkers",
     "useDashboardQueues", "useSchedulers", "useSchedulerCounts",
     "useScheduledJobs", "useScheduledJobCounts", "useWorkerThroughput",
     "useQueueDepth"}

ExecHooks == SingleCallHooks \cup {"useDashboardStats"}

\* The requests the queryFn of hook h awaits, in order.
EndpointsOf(h) ==
    IF h = "useDashboardStats"
    THEN <<"/jobs/counts", "/workers/counts", "/queues">>
    ELSE <<h>>

\* failAt is the request that will be rejected, 0 when none is.
ExecInit ==
    /\ q = [k \in Keys |-> NewQuery]
    /\ net = {}
    /\ timer = [k \in Keys |-> 0]
    /\ settings = DEFAULT_SETTINGS
    /\ now = ClockStep
    /\ mut = [phase |-> "idle", count |-> 0]
    /\ backend = NoBackend
    /\ jq = IdleQuery(InitialQueryParams)
    /\ storage = Stringify(DEFAULT_SETTINGS)
    /\ started = TRUE
    /\ \E h \in ExecHooks, n \in 0..3 :
          /\ n <= Len(EndpointsOf(h))
          /\ ex = [NoExec EXCEPT !.hook = h, !.failAt = n]

\* The queryFn reaches its next await api.get: the request is sent.
ExecCall ==
    /\ ex.outcome \in {"idle", "running"}
    /\ Len(ex.calls) < Len(EndpointsOf(ex.hook))
    /\ ex' = [ex EXCEPT !.calls = Append(@, EndpointsOf(ex.hook)[Len(@) + 1]),
                        !.outcome = "awaiting"]
    /\ UNCHANGED <<q, net, timer, settings, storage, now, mut, backend, jq, started>>

\* The request awaited settles.  A rejection (the response interceptor
\* returns Promise.reject) rejects the async queryFn; after the answer to
\* the last request the queryFn returns and its promise resolves.
ExecSettle ==
    /\ ex.outcome = "awaiting"
    /\ ex' = [ex EXCEPT !.outcome =
                IF Len(ex.calls) = ex.failAt THEN "rejected"
                ELSE IF Len(ex.calls) = Len(EndpointsOf(ex.hook)) THEN "resolved"
                ELSE "running"]
    /\ UNCHANGED <<q, net, timer, settings, storage, now, mut, backend, jq, started>>

ExecNext == ExecCall \/ ExecSettle

SpecExec == ExecInit /\ [][ExecNext]_vars

(***************************************************************************)
(* Claims about the cache, the timers and the mutations (under Spec).      *)
(***************************************************************************)

\* C1: the data committed for a key always comes from the attempt whose
\* sequence number is the key's current sequence when it is committed; a
\* superseded attempt that resolves later never replaces it.
C1_StaleResultRejected ==
    [][\A k \in Keys : q'[k].data # q[k].data => q'[k].data = q[k].seq]_vars

\* C1 witness: a newer attempt has committed while the request of an older,
\* superseded attempt of the same key is still outstanding.
C1_Witness ==
    \E r \in net : q[r.key].data > r.seq /\ q[r.key].data = q[r.key].seq

\* C2: single-flight: at most one physical request is outstanding per key.
C2_SingleFlight ==
    \A k \in Keys : Cardinality({r \in net : r.key = k}) <= 1

\* The spec's fetchedAt of an entry: the time of the last successful fetch,
\* cleared (the epoch) once the entry is marked stale.
FetchedAt(qs) == IF qs.isInvalidated THEN 0 ELSE qs.dataUpdatedAt

\* C3: when a cancel-job mutation succeeds, every cached jobs list key and the
\* job-counts key is marked stale (its fetchedAt reset) and is refetched at
\* once when observed; the next mount of a key so marked starts a fetch even
\* though its staleTime has not elapsed.
C3_CancelInvalidates ==
    [][ /\ \A k \in {"jobs", "jobCounts"} :
              (MutationSucceed("cancelJob") /\ q[k].cached) =>
                  /\ FetchedAt(q'[k]) = 0
                  /\ q[k].observers > 0 => q'[k].fetchStatus = "fetching"
        /\ \A k \in {"jobs", "jobCounts"} :
              (Mount(k) /\ q[k].data # 0 /\ FetchedAt(q[k]) = 0
                        /\ q[k].fetchStatus = "idle") =>
                  q'[k].seq = q[k].seq + 1 ]_vars

\* C3 witness: a mutation has resolved; the jobs list key and the job-counts
\* key hold data and are marked stale, the jobs key within its staleTime.
C3_Witness ==
    /\ mut.phase = "resolved"
    /\ \A k \in {"jobs", "jobCounts"} : q[k].data # 0 /\ q[k].isInvalidated
    /\ now < q["jobs"].dataUpdatedAt + StaleTimeOf("jobs")

\* C4: a key is invalidated only in the step in which a mutation's request
\* resolves successfully; a failed mutation changes no cache entry, starts no
\* request, and its rejection reaches the caller.
C4_InvalidateOnlyOnSuccess ==
    [][ /\ (\E k \in Keys : q'[k].isInvalidated /\ ~q[k].isInvalidated) =>
              (mut.phase = "pending" /\ mut'.phase = "resolved")
        /\ \A t \in MutationTypes :
              MutationFail(t) => (q' = q /\ net' = net /\ mut'.phase = "rejected")
      ]_vars

\* C4 witness: a mutation was rejected while the cache holds fresh data.
C4_Witness ==
    /\ mut.phase = "rejected"
    /\ \E k \in Keys : q[k].data # 0 /\ ~q[k].isInvalidated

\* C5: while auto-refresh is disabled no refresh timer fires for any key.
C5_SchedulerRespectsDisable ==
    [][(~settings.autoRefresh /\ ~settings'.autoRefresh) =>
            ~(\E k \in Keys : TimerFire(k))]_vars

\* The keys whose timer follows the jobs interval of the settings.
JobsIntervalKeys == {"jobs", "jobCounts"}

\* C12: a failed attempt leaves the refresh timer armed: an observed key in
\* error keeps its timer while auto-refresh is on, the failure itself does
\* not touch the timers, and the next tick starts a further attempt.
C12_ErrorKeepsScheduler ==
    [][\A k \in Keys :
          /\ (k \in JobsIntervalKeys /\ q'[k].status = "error"
                /\ q'[k].observers > 0 /\ settings'.autoRefresh)
                => timer'[k] = settings'.jobsRefreshInterval
          /\ (\E r \in net : r.key = k /\ ResolveFailure(r)) => timer' = timer
          /\ (TimerFire(k) /\ q[k].status = "error" /\ q[k].fetchStatus = "idle")
                => (q'[k].seq = q[k].seq + 1 /\ q'[k].fetchStatus = "fetching")]_vars

\* C12 witness: after an attempt ended in error, the timer has started another.
C12_Witness ==
    \E k \in JobsIntervalKeys :
        /\ q[k].status = "error"
        /\ q[k].fetchStatus = "fetching"
        /\ timer[k] # 0

\* C13: an observed list key that holds data keeps showing it, also after
\* a background refresh has failed.
C13_StaleDataStaysDisplayed ==
    \A k \in {"jobs"} :
        (q[k].observers > 0 /\ q[k].data # 0) => PageView(q[k]) = "table"

\* The cached keys a mutation of type t declares for invalidation.
DeclaredKeys(qq, t) ==
    {k \in Keys : qq[k].cached /\
        \E f \in RangeOf(InvalidationFilters(t)) : PartialMatchKey(f, QueryKeyOf(k))}

\* C14: the promise of a mutation resolves in the step that has sent the
\* request before and has marked every declared key invalidated.
C14_ResolvesAfterInvalidation ==
    [][(mut'.phase = "resolved" /\ mut.phase # "resolved") =>
          /\ mut.phase = "pending"
          /\ \E t \in MutationTypes : MutationSucceed(t)
          /\ \A t \in MutationTypes :
                MutationSucceed(t) => \A k \in DeclaredKeys(q, t) : q'[k].isInvalidated]_vars

\* C14 witness: a queue mutation has resolved and the queues key is invalidated.
C14_Witness ==
    /\ mut.phase = "resolved"
    /\ q["queues"].cached /\ q["queues"].isInvalidated
    /\ ~q["jobs"].isInvalidated

\* C16: every observed key has its timer armed while auto-refresh is on.
C16_EveryObservedKeyHasTimer ==
    \A k \in {"jobs", "jobCounts", "queues"} :
        (q[k].observers > 0 /\ settings.autoRefresh) => timer[k] # 0

\* C17: a key without observers has no timer, and no tick fires for it.
C17_NoTimerWithoutSubscriber ==
    [][\A k \in Keys :
          /\ q'[k].observers = 0 => timer'[k] = 0
          /\ TimerFire(k) => q[k].observers > 0]_vars

\* C17 witness: a key that holds data was left by its last observer, with
\* auto-refresh on, and its timer is cleared.
C17_Witness ==
    \E k \in JobsIntervalKeys :
        /\ q[k].cached /\ q[k].data # 0 /\ q[k].observers = 0
        /\ settings.autoRefresh
        /\ timer[k] = 0

\* The entity tags each mutation declares.
DeclaredTags(t) ==
    CASE t \in {"createJob", "deleteJob", "retryJob", "cancelJob"} ->
            {"jobs", "job-counts"}
      [] t \in {"createQueue", "deleteQueue", "updateQueue", "bulkQueue"} ->
            {"queues"}
      [] t = "emptyQueue" -> {"queues", "queue-metrics", "queue-health"}
      [] t = "deleteScheduledJob" -> {"scheduled-jobs", "scheduled-job-counts"}

EntryState(qs) ==
    <<qs.seq, qs.status, qs.fetchStatus, qs.data, qs.dataUpdatedAt, qs.isInvalidated>>

\* C21 as stated: a subscription to an entry that holds data, is not marked
\* stale and whose age does not exceed its staleTime starts no attempt and
\* leaves sequence, status, data and fetchedAt as they were.
C21_NoOpWhenAgeAtMostStaleTime ==
    [][\A k \in Keys :
          (/\ q[k].data # 0 /\ ~q[k].isInvalidated
           /\ now - q[k].dataUpdatedAt <= StaleTimeOf(k)
           /\ Mount(k))
          => (EntryState(q'[k]) = EntryState(q[k]) /\ net' = net)]_vars

\* C21: a subscription to an entry that holds data, is not marked stale and
\* is younger than its staleTime starts no attempt and leaves sequence,
\* status, data and fetchedAt as they were.
C21_NoOpWhenFresh ==
    [][\A k \in Keys :
          (/\ q[k].data # 0 /\ ~q[k].isInvalidated
           /\ now - q[k].dataUpdatedAt < StaleTimeOf(k)
           /\ Mount(k))
          => (EntryState(q'[k]) = EntryState(q[k]) /\ net' = net)]_vars

\* C21 witness: an entry fetched once is observed and idle at a later time,
\* within its staleTime, with no second attempt made.
C21_Witness ==
    \E k \in Keys :
        /\ q[k].observers > 0 /\ q[k].data = 1 /\ q[k].seq = 1
        /\ q[k].fetchStatus = "idle" /\ ~q[k].isInvalidated
        /\ now > q[k].dataUpdatedAt
        /\ now - q[k].dataUpdatedAt < StaleTimeOf(k)

\* C25: when a mutation resolves while an attempt for one of its declared,
\* observed keys is in flight, the invalidation starts a new attempt for
\* that key, so that what is committed next was fetched after the mutation.
C25_InvalidationSupersedesInFlight ==
    [][(mut.phase = "pending" /\ mut'.phase = "resolved") =>
          \A t \in MutationTypes :
              MutationSucceed(t) =>
                  \A k \in DeclaredKeys(q, t) :
                      (q[k].observers > 0 /\ q[k].fetchStatus = "fetching")
                          => q'[k].seq > q[k].seq]_vars

\* An entry shown as loading: no data yet and an attempt in flight.
IsLoading(qs) == qs.status = "pending" /\ qs.fetchStatus = "fetching"

JobKeys == {"jobs", "jobDetail", "jobCounts"}

\* C30: a successful empty-queue mutation leaves the entries of the jobs
\* list, job detail and job-counts keys as they were and starts no request
\* for them.
C30_EmptyQueueLeavesJobs ==
    [][(mut.phase = "pending" /\ mut'.phase = "resolved") =>
          (MutationSucceed("emptyQueue") =>
              \A k \in JobKeys :
                  /\ q'[k] = q[k]
                  /\ ~\E r \in net' \ net : r.key = k)]_vars

\* C30 witness: a mutation has resolved with the queues key invalidated,
\* while the observed jobs list keeps its data, unmarked, nothing in flight.
C30_Witness ==
    /\ mut.phase = "resolved"
    /\ q["queues"].isInvalidated
    /\ q["jobs"].observers > 0 /\ q["jobs"].data # 0
    /\ ~q["jobs"].isInvalidated /\ q["jobs"].fetchStatus = "idle"

(***************************************************************************)
(* Claims about the jobs query (under SpecAgg).                            *)
(***************************************************************************)
MultiQueueDone == jq.phase = "done" /\ Len(QueuesOf(jq.params)) >= 2

\* The jobs of all the partition payloads of the query.
Payloads ==
    UNION {{jq.responses[i].data[j] : j \in 1..Len(jq.responses[i].data)} :
              i \in 1..Len(jq.responses)}

Timestamps(jobs) == [i \in 1..Len(jobs) |-> jobs[i].created_at]

\* C6: the page of a multi-queue query is the slice [offset, offset+limit) of
\* the partition payloads ordered newest first: its length is what is left
\* after offset, capped at limit, and the job at position i has at most
\* offset+i-1 payload jobs newer than it and more than offset+i-1 not older.
C6_MergeCorrect ==
    MultiQueueDone =>
        LET page == jq.result.data
            off == jq.params.offset
            lim == jq.params.limit
            Newer(j) == Cardinality({x \in Payloads : x.created_at > j.created_at})
            NotOlder(j) == Cardinality({x \in Payloads : x.created_at >= j.created_at})
        IN  /\ Len(page) = Max(0, Min(lim, Cardinality(Payloads) - off))
            /\ \A i \in 1..Len(page) :
                  /\ page[i] \in Payloads
                  /\ Newer(page[i]) <= off + i - 1
                  /\ off + i - 1 < NotOlder(page[i])
            /\ \A i, j \in 1..Len(page) : i # j => page[i].id # page[j].id

\* C6 witness: the partitions hold [5,3,1] and [4,2]; limit 3, offset 0 gives [5,4,3].
C6_Witness ==
    /\ MultiQueueDone
    /\ backend = ExampleBackend
    /\ jq.params.queue = Arr(<<"A", "B">>)
    /\ jq.params.limit = 3 /\ jq.params.offset = 0
    /\ Timestamps(jq.result.data) = <<5, 4, 3>>

RECURSIVE SumOver(_, _)
SumOver(rs, I) ==
    IF I = {} THEN 0
    ELSE LET i == CHOOSE x \in I : TRUE IN rs[i].total + SumOver(rs, I \ {i})

\* C7: the total of a multi-queue query is the sum of the totals the
\* partitions report.
C7_TotalIsSumOfTotals ==
    MultiQueueDone =>
        jq.result.total = SumOver(jq.responses, 1..Len(jq.responses))

\* C7 witness: A(total 2), B(total 1), C(total 0) with limit 10, offset 0 give
\* total 3, has_more false and three merged records.
C7_Witness ==
    /\ MultiQueueDone
    /\ jq.params.queue = Arr(<<"A", "B", "C">>)
    /\ jq.params.limit = 10 /\ jq.params.offset = 0
    /\ [i \in 1..3 |-> jq.responses[i].total] = <<2, 1, 0>>
    /\ jq.result.total = 3
    /\ jq.result.has_more = FALSE
    /\ Len(jq.result.data) = 3

\* C8: in a multi-queue result has_more is true exactly when offset + limit
\* is less than the aggregate total.
C8_HasMoreFromTotal ==
    MultiQueueDone =>
        (jq.result.has_more <=> jq.params.offset + jq.params.limit < jq.result.total)

\* The same query with no queue filter at all.
Unfiltered(p) == [p EXCEPT !.queue = Absent]

\* C9: a query whose queue set is empty has the key of the unfiltered query
\* and sends its one request, without a queue parameter.
C9_EmptyQueueSetIsUnfiltered ==
    (jq.phase = "done" /\ QueuesOf(jq.params) = <<>>) =>
        /\ jq.key = HashQueryKey(Unfiltered(jq.params))
        /\ jq.requests = JobsRequests(Unfiltered(jq.params))
        /\ Len(jq.requests) = 1
        /\ jq.requests[1].queue = Omitted

\* A filter that is undefined, omitted or explicitly empty ("" or []).
IsEmptyFilter(v) == v \in {Undef, Absent, Str(""), Arr(<<>>)}

\* The params with every empty filter left out.
Canonical(p) ==
    [f \in DOMAIN p |->
        IF f \in FilterFields /\ IsEmptyFilter(p[f]) THEN Absent ELSE p[f]]

\* C10: params that are equal after normalization have the same query key.
C10_KeyIsCanonical ==
    jq.phase = "done" => jq.key = HashQueryKey(Canonical(jq.params))

\* C11: when a partition request of a multi-queue query fails, the query
\* ends in error and returns nothing to commit, whatever the other
\* partitions answered.
C11_FailFast ==
    (jq.phase # "idle" /\ Len(QueuesOf(jq.params)) >= 2 /\ jq.failed # {}) =>
        /\ jq.phase = "error"
        /\ DOMAIN jq.result = {}

\* C11 witness: one partition failed, another answered with jobs.
C11_Witness ==
    /\ jq.phase = "error"
    /\ Len(QueuesOf(jq.params)) >= 2
    /\ Cardinality(jq.failed) = 1
    /\ \E i \in 1..Len(jq.responses) : jq.responses[i].data # <<>>

\* C22: a query filtered by exactly one queue sends one request that carries
\* the queue name and the caller's limit and offset, and returns the
\* backend's envelope for that request as it is.
C22_SingleQueuePassThrough ==
    (jq.phase = "done" /\ Len(QueuesOf(jq.params)) = 1) =>
        /\ Len(jq.requests) = 1
        /\ jq.requests[1].queue = Str(QueuesOf(jq.params)[1])
        /\ jq.requests[1].limit = jq.params.limit
        /\ jq.requests[1].offset = jq.params.offset
        /\ jq.result = Respond(backend, jq.requests[1])

\* C23: a query over n >= 2 queues sends n requests, the i-th for the i-th
\* queue name, each asking for the least number of items that is at least
\* limit / n, and every one with the caller's other filters, the same in all.
C23_FanOutShape ==
    (jq.phase # "idle" /\ Len(QueuesOf(jq.params)) >= 2) =>
        LET p == jq.params
            queues == QueuesOf(p)
            n == Len(queues)
        IN  /\ Len(jq.requests) = n
            /\ \A i \in 1..n :
                  /\ jq.requests[i].queue = Str(queues[i])
                  /\ jq.requests[i].limit * n >= p.limit
                  /\ (jq.requests[i].limit - 1) * n < p.limit
                  /\ \A f \in FilterFields \ {"queue"} :
                        /\ jq.requests[i].filters[f] = jq.requests[1].filters[f]
                        /\ Truthy(p[f]) => jq.requests[i].filters[f] = p[f]

\* C23 witness: three queues and limit 10 give three requests of 4 items.
C23_Witness ==
    /\ MultiQueueDone
    /\ jq.params.queue = Arr(<<"A", "B", "C">>)
    /\ jq.params.limit = 10
    /\ [i \in 1..Len(jq.requests) |-> jq.requests[i].limit] = <<4, 4, 4>>

\* C26: a page of a multi-queue query at an offset greater than 0 holds a
\* record whenever the aggregate total exceeds that offset.
C26_LaterPageNonEmpty ==
    (MultiQueueDone /\ jq.params.offset > 0 /\ jq.result.total > jq.params.offset)
        => Len(jq.result.data) > 0

\* The jobs the backend holds in the queues the query selects, newest first.
SelectedNewestFirst ==
    NewestFirst(backend, {i \in 1..backend.n :
                             backend.qof[i] \in RangeOf(QueuesOf(jq.params))})

\* C27: the first page of a multi-queue query holds the limit most recently
\* created jobs of the selected queues, or all of them when there are fewer.
C27_NewestAcrossQueues ==
    (MultiQueueDone /\ jq.params.offset = 0) =>
        Timestamps(jq.result.data) =
            Timestamps(Slice(SelectedNewestFirst, 0, jq.params.limit))

(***************************************************************************)
(* Claims about the order of completion (under SpecArrival).               *)
(***************************************************************************)
\* The result of the query when its requests complete in request order.
InOrderResult ==
    LET reqs == JobsRequests(jq.params)
    IN  JobsResult(jq.params, [i \in 1..Len(reqs) |-> Respond(backend, reqs[i])])

\* C24: whatever the order in which the partition requests complete, the
\* result of a multi-queue query is the one of their completing in request
\* order, also when records of different partitions share a timestamp.
C24_MergeDeterministic ==
    MultiQueueDone => jq.result = InOrderResult

\* C24 witness: the last request completed first, and the page holds two
\* records of different queues with the same timestamp.
C24_Witness ==
    /\ MultiQueueDone
    /\ jq.order[1] = Len(jq.order)
    /\ \E i, j \in 1..Len(jq.result.data) :
          /\ jq.result.data[i].queue # jq.result.data[j].queue
          /\ jq.result.data[i].created_at = jq.result.data[j].created_at

(***************************************************************************)
(* Claims about the settings store (under SpecSettings).                   *)
(***************************************************************************)
\* The defaults as documented: jobs, queues and workers every 10,000 ms,
\* dashboard and analytics every 30,000 ms, auto-refresh on.
DocumentedDefaults ==
    [jobsRefreshInterval |-> 10000, queuesRefreshInterval |-> 10000,
     workersRefreshInterval |-> 10000, dashboardRefreshInterval |-> 30000,
     analyticsRefreshInterval |-> 30000, autoRefresh |-> TRUE]

\* C15: the settings read when the page loads are the documented defaults
\* when nothing or nothing parsable is stored, and for a stored object the
\* stored value of each field it holds and the default of each it lacks.
C15_DefaultsAtStartUp ==
    [][(~started /\ started') =>
          \A f \in DOMAIN DocumentedDefaults :
              settings'[f] =
                  IF storage[1] = "object" /\ f \in DOMAIN storage[2]
                  THEN storage[2][f]
                  ELSE DocumentedDefaults[f]]_vars

\* C15 witness: the page has loaded from an object that stored only the
\* auto-refresh switch, and the effect has not yet written the item back.
C15_Witness ==
    /\ started
    /\ storage = ObjectItem([f \in {"autoRefresh"} |-> FALSE])
    /\ ~settings.autoRefresh
    /\ settings.jobsRefreshInterval = 10000

\* C18: the timers of the keys on the jobs interval always carry the
\* current settings: armed with the current interval while observed and
\* auto-refresh is on, unarmed otherwise.
C18_TimersFollowSettings ==
    started =>
        \A k \in JobsIntervalKeys :
            timer[k] = IF q[k].observers > 0 /\ settings.autoRefresh
                       THEN settings.jobsRefreshInterval ELSE 0

\* C18 witness: the interval was set to its least value while the jobs
\* view is mounted, and its timer runs at that value.
C18_Witness ==
    /\ started
    /\ q["jobs"].observers > 0
    /\ settings.jobsRefreshInterval = MIN_REFRESH_INTERVAL
    /\ timer["jobs"] = MIN_REFRESH_INTERVAL

\* C28: what is stored, merged over the defaults, is the settings in
\* memory: a reload reads back the settings last shown, and the defaults
\* after a reset.
C28_StoredAgreesWithMemory ==
    started => LoadSettings(storage) = settings

\* C28 witness: an interval changed on the Settings page is in memory and
\* stored, with auto-refresh as an earlier session had left it stored.
C28_Witness ==
    /\ started
    /\ settings.jobsRefreshInterval = MIN_REFRESH_INTERVAL
    /\ settings.dashboardRefreshInterval # DEFAULT_DASHBOARD_REFRESH_INTERVAL
    /\ storage = Stringify(settings)

(***************************************************************************)
(* Claims about the execution of a queryFn (under SpecExec).               *)
(***************************************************************************)
\* C20: an execution that has ended, resolved or rejected, has sent exactly
\* one request.
C20_OneCallPerExecution ==
    ex.outcome \in {"resolved", "rejected"} => Len(ex.calls) = 1

====
